---- MODULE Spec2Model ----
(***************************************************************************)
(* Model of the ingest channel of go-sonic (sonic/ingester.go): Push and   *)
(* its text escaping and chunking, the batch partitioner, and the bulk     *)
(* dispatchers BulkPush and BulkPop with their worker goroutines, the      *)
(* mutex-guarded error list and the WaitGroup join.                        *)
(*                                                                         *)
(* Thread 0 is the goroutine of the caller; thread k >= 1 is the worker    *)
(* started for partition k.  Connection 0 is the connection of the         *)
(* ingester's own driver (i.write / i.read); connection k >= 1 is the one  *)
(* worker k obtains from newConnection.                                    *)
(***************************************************************************)
EXTENDS Integers, Sequences, FiniteSets, TLC

\* ---------------------------------------------------------------- bounds
MaxRecords == 2
MaxDivRecords == 6
MaxTextLen == 3
MaxBudget == 6

\* ------------------------------------------------------------- constants
Nil == "nil"
ErrClosed == "ErrClosed"
IOError == "IOError"
NilConn == -1

Threads == 0 .. MaxRecords
Workers == 1 .. MaxRecords

\* bytes: 'a', backslash, newline, double quote, 'n', a two-byte rune (C3 A9)
Bytes == {97, 92, 10, 34, 195, 169}
Texts == UNION {[1 .. m -> Bytes] : m \in 0 .. MaxTextLen}
BulkTexts == {<<97>>, <<97, 34, 97>>}
CmdMaxBytesChoices == {2, 4}
\* requested parallelism: negative, zero, and up to one more than a batch of two
ParallelChoices == {-1, 0, 1, 2, 3}
BulkCmdMaxBytesChoices == {4}

VARIABLES
    op,                \* the call: "Push", "BulkPush" or "BulkPop"
    records,           \* the batch ([Object, Text]); one record for Push
    parallelRoutines,  \* the requested parallelism
    cmdMaxBytes,       \* i.cmdMaxBytes of the driver
    divided,           \* result of divideIngestBulkRecords
    spawned,           \* number of goroutines started by the range loop
    group,             \* sync.WaitGroup counter
    errMutex,          \* 0 when unlocked, else the worker holding it
    errs,              \* the shared error list
    pc,                \* position of each thread
    conn,              \* conn of each worker (NilConn when nil)
    idx,               \* position of each worker in its partition
    chunks,            \* chunks of the Push a thread is executing
    ci,                \* index of the chunk being sent
    pend,              \* argument of the addBulkError call in progress
    ret,               \* where the worker continues after addBulkError
    tmp,               \* the slice header read by append
    conns,             \* the connections
    calls,             \* number of addBulkError calls made, per entry
    failed,            \* records for which a write or a read failed
    pushLog,           \* per thread, trace of the Push being executed
    result,            \* value returned by a direct Push
    panicked,          \* a goroutine panicked: the process is gone
    tried,             \* per worker, the objects whose command it sent, in order
    longString,        \* splitText step by step: its argument (the escaped text)
    splitL,            \* splitText: l
    splitR,            \* splitText: r
    splits,            \* splitText: splits
    spc                \* splitText: position ("start", "loop", "done", "panic")

vars == <<op, records, parallelRoutines, cmdMaxBytes, divided, spawned, group,
          errMutex, errs, pc, conn, idx, chunks, ci, pend, ret, tmp, conns,
          calls, failed, pushLog, result, panicked, tried, longString, splitL,
          splitR, splits, spc>>

\* the state of the step-by-step run of splitText
splitVars == <<longString, splitL, splitR, splits, spc>>

\* ------------------------------------------------------------ Line codec
RECURSIVE Replace(_, _, _)
Replace(s, old, new) ==
    IF s = <<>> THEN <<>>
    ELSE (IF Head(s) = old THEN new ELSE <<Head(s)>>) \o Replace(Tail(s), old, new)

patternsMutant == << [Pattern |-> 10, Replacement |-> <<92, 110>>],
                     [Pattern |-> 92, Replacement |-> <<92, 92>>],
                     [Pattern |-> 34, Replacement |-> <<92, 34>>] >>

patterns == << [Pattern |-> 92, Replacement |-> <<92, 92>>],
               [Pattern |-> 10, Replacement |-> <<92, 110>>],
               [Pattern |-> 34, Replacement |-> <<92, 34>>] >>

RECURSIVE escapeFrom(_, _)
escapeFrom(text, v) ==
    IF v > Len(patterns) THEN text
    ELSE escapeFrom(Replace(text, patterns[v].Pattern, patterns[v].Replacement), v + 1)

escapeText(text) == escapeFrom(text, 1)

RuneStartMutant(b) == TRUE

RuneStart(b) == (b \div 64) % 4 # 2

\* the inner loop of splitText; r is a 0-based index, -1 when it runs off
RECURSIVE walkBack(_, _)
walkBack(s, r) ==
    IF r < 0 THEN r
    ELSE IF RuneStart(s[r + 1]) THEN r
    ELSE walkBack(s, r - 1)

\* longString[l:r]
sliceChunkMutant(s, l, r) == SubSeq(s, l + 1, r - 1)

sliceChunk(s, l, r) == SubSeq(s, l + 1, r)

\* longString[l:]
lastChunkMutant(s, l) == SubSeq(s, l + 2, Len(s))

lastChunk(s, l) == SubSeq(s, l + 1, Len(s))

\* the outer loop of splitText from (l, r).  status "ok": the loop ended;
\* "hang": an iteration leaves l where it was, so the loop never ends;
\* "panic": longString[r] is indexed with r < 0.
RECURSIVE splitLoop(_, _, _, _, _)
splitLoop(s, maxLen, l, r, acc) ==
    IF r < Len(s)
    THEN LET r2 == walkBack(s, r) IN
         IF r2 < 0 THEN [status |-> "panic", splits |-> acc]
         ELSE IF r2 <= l THEN [status |-> "hang", splits |-> acc]
         ELSE splitLoop(s, maxLen, r2, r2 + maxLen, Append(acc, sliceChunk(s, l, r2)))
    ELSE [status |-> "ok", splits |-> Append(acc, lastChunk(s, l))]

splitText(s, maxLen) == splitLoop(s, maxLen, 0, maxLen, <<>>)

\* ------------------------------------------------------ Batch partitioner
clampParallelMutant(p) == IF p < 0 THEN 1 ELSE p

clampParallel(p) == IF p <= 0 THEN 1 ELSE p

chunkSizeOf(n, p) == (n + p - 1) \div p

divideContinueMutant(i, chunkSize, n) == i < n /\ i + chunkSize <= n

divideContinue(i, chunkSize, n) == i < n

RECURSIVE divideFrom(_, _, _)
divideFrom(recs, chunkSize, i) ==
    IF divideContinue(i, chunkSize, Len(recs))
    THEN LET e == i + chunkSize
             end == IF e > Len(recs) THEN Len(recs) ELSE e
         IN  <<SubSeq(recs, i + 1, end)>> \o divideFrom(recs, chunkSize, i + chunkSize)
    ELSE <<>>

divideIngestBulkRecords(recs, p) == divideFrom(recs, chunkSizeOf(Len(recs), p), 0)

\* group.Add(len(divided))
GroupAddMutant(d, p) == p

GroupAdd(d, p) == Len(d)

\* group.Wait() returns when the counter is zero
WaitReadyMutant == TRUE

WaitReady == group = 0

\* append(*e, IngestBulkError{record.Object, err})
appendErrMutant(list, e) == <<e>> \o list

appendErr(list, e) == Append(list, e)

\* mutex.Lock() proceeds when the mutex is free
MutexFreeMutant == TRUE

MutexFree == errMutex = 0

\* if err != nil { return err } in Push
PushStopsMutant(err) == FALSE

PushStops(err) == err # Nil

\* continue after a failed Push / a failed write
pushContinueMutant == "bulkRead"

pushContinue == "next"

popContinueMutant == "close"

popContinue == "next"

\* --------------------------------------------------- Connection adapter
NewConn == [state |-> "unopened", pending |-> 0, written |-> 0, reads |-> 0,
            users |-> {}]

\* outcomes of a method called on a nil connection
NilConnOutcomes == {"err", "panic"}

\* write(line) on connection c by thread t
connWrite(c, t, ok) ==
    [conns EXCEPT ![c].users = @ \cup {t},
                  ![c].written = IF ok THEN @ + 1 ELSE @,
                  ![c].pending = IF ok THEN @ + 1 ELSE @]

\* read() on connection c by thread t; it can succeed when a line is there
canRead(c) == conns[c].pending > 0

connRead(c, t, ok) ==
    [conns EXCEPT ![c].users = @ \cup {t},
                  ![c].reads = @ + 1,
                  ![c].pending = IF ok THEN @ - 1 ELSE @]

connClose(c, t) ==
    [conns EXCEPT ![c] = [state |-> "closed", pending |-> 0, written |-> 0,
                          reads |-> 0, users |-> @.users \cup {t}]]

\* ------------------------------------------------------------------ Init
Entries == [Object : 1 .. MaxRecords, Error : {ErrClosed, IOError}]
NoEntry == [Object |-> 0, Error |-> Nil]
NewLog == [sent |-> <<>>, acked |-> <<>>, firstErr |-> Nil, done |-> FALSE,
           res |-> Nil]

InitRest ==
    /\ divided = <<>>
    /\ spawned = 0
    /\ group = 0
    /\ errMutex = 0
    /\ errs = <<>>
    /\ pc = [t \in Threads |-> IF t = 0 THEN "call" ELSE "idle"]
    /\ conn = [t \in Threads |-> NilConn]
    /\ idx = [t \in Threads |-> 1]
    /\ chunks = [t \in Threads |-> <<>>]
    /\ ci = [t \in Threads |-> 1]
    /\ pend = [t \in Threads |-> NoEntry]
    /\ ret = [t \in Threads |-> "none"]
    /\ tmp = [t \in Threads |-> <<>>]
    /\ conns = [c \in Threads |-> IF c = 0 THEN [NewConn EXCEPT !.state = "open"]
                                  ELSE NewConn]
    /\ calls = [e \in Entries |-> 0]
    /\ failed = {}
    /\ pushLog = [t \in Threads |-> NewLog]
    /\ result = "none"
    /\ panicked = FALSE
    /\ tried = [t \in Threads |-> <<>>]
    /\ longString = <<>>
    /\ splitL = 0
    /\ splitR = 0
    /\ splits = <<>>
    /\ spc = "start"

InitPush ==
    /\ op = "Push"
    /\ \E text \in Texts : records = <<[Object |-> 1, Text |-> text]>>
    /\ parallelRoutines = 1
    /\ cmdMaxBytes \in CmdMaxBytesChoices

InitBulk ==
    /\ op \in {"BulkPush", "BulkPop"}
    /\ \E n \in 0 .. MaxRecords :
       \E txt \in (IF op = "BulkPush" THEN BulkTexts ELSE {<<97>>}) :
          records = [i \in 1 .. n |-> [Object |-> i,
                                       Text |-> IF i = 1 THEN txt ELSE <<97>>]]
    /\ parallelRoutines \in ParallelChoices
    /\ cmdMaxBytes \in BulkCmdMaxBytesChoices

Init == (InitPush \/ InitBulk) /\ InitRest

InitDivide ==
    /\ op \in {"BulkPush", "BulkPop"}
    /\ \E n \in 0 .. MaxDivRecords :
          records = [i \in 1 .. n |-> [Object |-> i, Text |-> <<97>>]]
    /\ parallelRoutines \in -1 .. (MaxDivRecords + 1)
    /\ cmdMaxBytes \in BulkCmdMaxBytesChoices
    /\ InitRest

\* --------------------------------------------------------------- actions
inputs == <<op, records, parallelRoutines, cmdMaxBytes>>

IsBulk == op \in {"BulkPush", "BulkPop"}

\* the record a worker is at (rec of "for _, rec := range recs")
rec(k) == divided[k][idx[k]]

\* the record whose Push thread t executes
pushRec(t) == IF t = 0 THEN records[1] ELSE rec(t)

\* BulkPush / BulkPop up to group.Add: clamp, partition, set the counter.
\* A zero divisor in divideIngestBulkRecords is a run-time panic.
BulkStart ==
    /\ ~panicked /\ IsBulk /\ pc[0] = "call"
    /\ LET p == clampParallel(parallelRoutines) IN
       IF p = 0
       THEN /\ panicked' = TRUE
            /\ pc' = [pc EXCEPT ![0] = "crashed"]
            /\ UNCHANGED <<divided, group>>
       ELSE /\ divided' = divideIngestBulkRecords(records, p)
            /\ group' = GroupAdd(divided', p)
            /\ pc' = [pc EXCEPT ![0] = "dispatch"]
            /\ UNCHANGED panicked
    /\ UNCHANGED <<splitVars, tried, inputs,
                   spawned, errMutex, errs, conn, idx, chunks, ci, pend,
                   ret, tmp, conns, calls, failed, pushLog, result>>

\* one iteration of "for _, r := range divided { go func(recs) ... (r) }"
Spawn ==
    /\ ~panicked /\ pc[0] = "dispatch" /\ spawned < Len(divided)
    /\ spawned' = spawned + 1
    /\ pc' = [pc EXCEPT ![spawned + 1] = "connect"]
    /\ UNCHANGED <<splitVars, tried, inputs,
                   divided, group, errMutex, errs, conn, idx, chunks, ci,
                   pend, ret, tmp, conns, calls, failed, pushLog, result, panicked>>

\* group.Wait(); return errs
GroupWait ==
    /\ ~panicked /\ pc[0] = "dispatch" /\ spawned = Len(divided)
    /\ WaitReady
    /\ pc' = [pc EXCEPT ![0] = "returned"]
    /\ UNCHANGED <<splitVars, tried, inputs,
                   divided, spawned, group, errMutex, errs, conn, idx,
                   chunks, ci, pend, ret, tmp, conns, calls, failed, pushLog,
                   result, panicked>>

\* conn, _ := newConnection(i.driver)
Connect(k) ==
    /\ ~panicked /\ pc[k] = "connect"
    /\ \E ok \in BOOLEAN :
          /\ conn' = [conn EXCEPT ![k] = IF ok THEN k ELSE NilConn]
          /\ conns' = IF ok THEN [conns EXCEPT ![k].state = "open"] ELSE conns
    /\ pc' = [pc EXCEPT ![k] = "loop"]
    /\ UNCHANGED <<splitVars, tried, inputs,
                   divided, spawned, group, errMutex, errs, idx, chunks,
                   ci, pend, ret, tmp, calls, failed, pushLog, result, panicked>>

\* entry of addBulkError(&errs, rec, e, errMutex), continuing at r afterwards
CallAdd(k, e, r) ==
    /\ pc' = [pc EXCEPT ![k] = "abLock"]
    /\ pend' = [pend EXCEPT ![k] = [Object |-> rec(k).Object, Error |-> e]]
    /\ ret' = [ret EXCEPT ![k] = r]
    /\ calls' = [calls EXCEPT ![[Object |-> rec(k).Object, Error |-> e]] = @ + 1]

\* head of "for _, rec := range recs" and the conn == nil test
LoopHead(k) ==
    /\ ~panicked /\ pc[k] = "loop"
    /\ IF idx[k] > Len(divided[k])
       THEN /\ pc' = [pc EXCEPT ![k] = "close"]
            /\ UNCHANGED <<pend, ret, calls>>
       ELSE IF conn[k] = NilConn
       THEN CallAdd(k, ErrClosed, "op")
       ELSE /\ pc' = [pc EXCEPT ![k] = "op"]
            /\ UNCHANGED <<pend, ret, calls>>
    /\ UNCHANGED <<splitVars, tried, inputs,
                   divided, spawned, group, errMutex, errs, conn, idx,
                   chunks, ci, tmp, conns, failed, pushLog, result, panicked>>

\* mutex.Lock() and the read of *e by append
AbLock(k) ==
    /\ ~panicked /\ pc[k] = "abLock"
    /\ MutexFree
    /\ errMutex' = k
    /\ tmp' = [tmp EXCEPT ![k] = errs]
    /\ pc' = [pc EXCEPT ![k] = "abAppend"]
    /\ pushLog' = [pushLog EXCEPT ![k] = NewLog]
    /\ UNCHANGED <<splitVars, tried, inputs,
                   divided, spawned, group, errs, conn, idx, chunks, ci,
                   pend, ret, conns, calls, failed, result, panicked>>

\* *e = append(...), the deferred mutex.Unlock() and the return
AbAppend(k) ==
    /\ ~panicked /\ pc[k] = "abAppend"
    /\ errs' = appendErr(tmp[k], pend[k])
    /\ errMutex' = 0
    /\ tmp' = [tmp EXCEPT ![k] = <<>>]
    /\ pend' = [pend EXCEPT ![k] = NoEntry]
    /\ ret' = [ret EXCEPT ![k] = "none"]
    /\ IF ret[k] = "next"
       THEN /\ pc' = [pc EXCEPT ![k] = "loop"]
            /\ idx' = [idx EXCEPT ![k] = @ + 1]
       ELSE /\ pc' = [pc EXCEPT ![k] = ret[k]]
            /\ UNCHANGED idx
    /\ UNCHANGED <<splitVars, tried, inputs,
                   divided, spawned, group, conn, chunks, ci, conns,
                   calls, failed, pushLog, result, panicked>>

\* return of Push with value err: to the caller of a direct Push, or into
\* the loop body of a BulkPush worker (lines 175-178)
PushReturn(t, err, log) ==
    /\ pushLog' = [pushLog EXCEPT ![t] = [log EXCEPT !.done = TRUE, !.res = err]]
    /\ chunks' = [chunks EXCEPT ![t] = <<>>]
    /\ ci' = [ci EXCEPT ![t] = 1]
    /\ IF t = 0
       THEN /\ pc' = [pc EXCEPT ![0] = "returned"]
            /\ result' = err
            /\ UNCHANGED <<pend, ret, calls>>
       ELSE IF err # Nil
       THEN /\ CallAdd(t, err, pushContinue)
            /\ UNCHANGED result
       ELSE /\ pc' = [pc EXCEPT ![t] = "bulkRead"]
            /\ UNCHANGED <<pend, ret, calls, result>>

\* Push up to the chunk loop: escape the text, split it
PushStart(t) ==
    /\ ~panicked
    /\ \/ t = 0 /\ op = "Push" /\ pc[0] = "call"
       \/ t # 0 /\ op = "BulkPush" /\ pc[t] = "op"
    /\ LET sp == splitText(escapeText(pushRec(t).Text), cmdMaxBytes \div 2) IN
       /\ panicked' = (sp.status = "panic")
       /\ pc' = [pc EXCEPT ![t] = CASE sp.status = "ok" -> "pushWrite"
                                    [] sp.status = "hang" -> "hang"
                                    [] OTHER -> @]
       /\ chunks' = [chunks EXCEPT ![t] = sp.splits]
    /\ ci' = [ci EXCEPT ![t] = 1]
    /\ pushLog' = [pushLog EXCEPT ![t] = NewLog]
    /\ tried' = IF t = 0 THEN tried
                ELSE [tried EXCEPT ![t] = Append(@, pushRec(t).Object)]
    /\ UNCHANGED <<splitVars, inputs,
                   divided, spawned, group, errMutex, errs, conn, idx,
                   pend, ret, tmp, conns, calls, failed, result>>

\* i.write(PUSH ... "chunk") on the driver's connection, and the err test
PushWrite(t) ==
    /\ ~panicked /\ pc[t] = "pushWrite"
    /\ \E ok \in BOOLEAN :
          LET err == IF ok THEN Nil ELSE IOError
              log == [pushLog[t] EXCEPT
                         !.sent = Append(@, ci[t]),
                         !.firstErr = IF @ = Nil THEN err ELSE @]
          IN  /\ conns' = connWrite(0, t, ok)
              /\ failed' = IF ok THEN failed ELSE failed \cup {pushRec(t).Object}
              /\ IF PushStops(err)
                 THEN PushReturn(t, err, log)
                 ELSE /\ pushLog' = [pushLog EXCEPT ![t] = log]
                      /\ pc' = [pc EXCEPT ![t] = "pushRead"]
                      /\ UNCHANGED <<pend, ret, calls, result, chunks, ci>>
    /\ UNCHANGED <<splitVars, tried, inputs,
                   divided, spawned, group, errMutex, errs, conn, idx,
                   tmp, panicked>>

\* _, err = i.read() on the driver's connection, the err test, and the
\* step to the next chunk or the return nil
PushRead(t) ==
    /\ ~panicked /\ pc[t] = "pushRead"
    /\ \E ok \in BOOLEAN :
          LET err == IF ok THEN Nil ELSE IOError
              log == [pushLog[t] EXCEPT
                         !.acked = IF ok THEN Append(@, ci[t]) ELSE @,
                         !.firstErr = IF @ = Nil THEN err ELSE @]
          IN  /\ ok => canRead(0)
              /\ conns' = connRead(0, t, ok)
              /\ failed' = IF ok THEN failed ELSE failed \cup {pushRec(t).Object}
              /\ IF PushStops(err)
                 THEN PushReturn(t, err, log)
                 ELSE IF ci[t] = Len(chunks[t])
                 THEN PushReturn(t, Nil, log)
                 ELSE /\ pushLog' = [pushLog EXCEPT ![t] = log]
                      /\ ci' = [ci EXCEPT ![t] = @ + 1]
                      /\ pc' = [pc EXCEPT ![t] = "pushWrite"]
                      /\ UNCHANGED <<pend, ret, calls, result, chunks>>
    /\ UNCHANGED <<splitVars, tried, inputs,
                   divided, spawned, group, errMutex, errs, conn, idx,
                   tmp, panicked>>

\* conn.write(POP ...) of a BulkPop worker, and the err test
PopWrite(k) ==
    /\ ~panicked /\ op = "BulkPop" /\ pc[k] = "op"
    /\ IF conn[k] = NilConn
       THEN /\ \E o \in NilConnOutcomes :
                  IF o = "panic"
                  THEN /\ panicked' = TRUE
                       /\ UNCHANGED <<pc, pend, ret, calls, failed>>
                  ELSE /\ CallAdd(k, ErrClosed, popContinue)
                       /\ failed' = failed \cup {rec(k).Object}
                       /\ UNCHANGED panicked
            /\ UNCHANGED conns
       ELSE /\ \E ok \in BOOLEAN :
                  /\ conns' = connWrite(conn[k], k, ok)
                  /\ IF ok
                     THEN /\ pc' = [pc EXCEPT ![k] = "bulkRead"]
                          /\ UNCHANGED <<pend, ret, calls, failed>>
                     ELSE /\ CallAdd(k, IOError, popContinue)
                          /\ failed' = failed \cup {rec(k).Object}
            /\ UNCHANGED panicked
    /\ tried' = [tried EXCEPT ![k] = Append(@, rec(k).Object)]
    /\ UNCHANGED <<splitVars, inputs,
                   divided, spawned, group, errMutex, errs, conn, idx,
                   chunks, ci, tmp, pushLog, result>>

\* _, err = conn.read() of a worker, the err test and the end of the body
BulkRead(k) ==
    /\ ~panicked /\ pc[k] = "bulkRead"
    /\ IF conn[k] = NilConn
       THEN /\ \E o \in NilConnOutcomes :
                  IF o = "panic"
                  THEN /\ panicked' = TRUE
                       /\ UNCHANGED <<pc, pend, ret, calls, failed, idx>>
                  ELSE /\ CallAdd(k, ErrClosed, "next")
                       /\ failed' = failed \cup {rec(k).Object}
                       /\ UNCHANGED <<panicked, idx>>
            /\ UNCHANGED conns
       ELSE /\ \E ok \in BOOLEAN :
                  /\ ok => canRead(conn[k])
                  /\ conns' = connRead(conn[k], k, ok)
                  /\ IF ok
                     THEN /\ pc' = [pc EXCEPT ![k] = "loop"]
                          /\ idx' = [idx EXCEPT ![k] = @ + 1]
                          /\ UNCHANGED <<pend, ret, calls, failed>>
                     ELSE /\ CallAdd(k, IOError, "next")
                          /\ failed' = failed \cup {rec(k).Object}
                          /\ UNCHANGED idx
            /\ UNCHANGED panicked
    /\ pushLog' = [pushLog EXCEPT ![k] = NewLog]
    /\ UNCHANGED <<splitVars, tried, inputs,
                   divided, spawned, group, errMutex, errs, conn,
                   chunks, ci, tmp, result>>

\* conn.close()
Close(k) ==
    /\ ~panicked /\ pc[k] = "close"
    /\ conns' = IF conn[k] = NilConn THEN conns ELSE connClose(conn[k], k)
    /\ pc' = [pc EXCEPT ![k] = "groupDone"]
    /\ UNCHANGED <<splitVars, tried, inputs,
                   divided, spawned, group, errMutex, errs, conn, idx,
                   chunks, ci, pend, ret, tmp, calls, failed, pushLog, result,
                   panicked>>

\* group.Done()
GroupDone(k) ==
    /\ ~panicked /\ pc[k] = "groupDone"
    /\ group' = group - 1
    /\ pc' = [pc EXCEPT ![k] = "done"]
    /\ UNCHANGED <<splitVars, tried, inputs,
                   divided, spawned, errMutex, errs, conn, idx, chunks,
                   ci, pend, ret, tmp, conns, calls, failed, pushLog, result,
                   panicked>>

Next ==
    \/ BulkStart
    \/ Spawn
    \/ GroupWait
    \/ \E k \in Workers : Connect(k)
    \/ \E k \in Workers : LoopHead(k)
    \/ \E k \in Workers : AbLock(k)
    \/ \E k \in Workers : AbAppend(k)
    \/ \E t \in Threads : PushStart(t)
    \/ \E t \in Threads : PushWrite(t)
    \/ \E t \in Threads : PushRead(t)
    \/ \E k \in Workers : PopWrite(k)
    \/ \E k \in Workers : BulkRead(k)
    \/ \E k \in Workers : Close(k)
    \/ \E k \in Workers : GroupDone(k)

Spec == Init /\ [][Next]_vars

\* the partitioner alone, on batches of up to MaxDivRecords records
NextDivide == BulkStart

SpecDivide == InitDivide /\ [][NextDivide]_vars

\* ---------------------------------------- Push's text, one step at a time
\* patterns and the replace loop of Push, then the head of splitText
SplitStart ==
    /\ spc = "start"
    /\ longString' = escapeText(records[1].Text)
    /\ splits' = <<>>
    /\ splitL' = 0
    /\ splitR' = cmdMaxBytes \div 2
    /\ spc' = "loop"
    /\ UNCHANGED <<tried, inputs, divided, spawned, group, errMutex, errs, pc, conn,
                   idx, chunks, ci, pend, ret, tmp, conns, calls, failed, pushLog,
                   result, panicked>>

\* one iteration of the outer loop of splitText: walk r back to a rune
\* start, append longString[l:r], then l, r = r, r+maxLen.  Indexing
\* longString with r < 0 panics.  The loop is followed only while splits is
\* not longer than longString: a run that ends never has more chunks than
\* bytes, so only runs that do not end are cut.
SplitStep ==
    /\ spc = "loop" /\ splitR < Len(longString)
    /\ Len(splits) <= Len(longString)
    /\ LET r2 == walkBack(longString, splitR) IN
       IF r2 < 0
       THEN /\ spc' = "panic"
            /\ UNCHANGED <<splits, splitL, splitR>>
       ELSE /\ splits' = Append(splits, sliceChunk(longString, splitL, r2))
            /\ splitL' = r2
            /\ splitR' = r2 + cmdMaxBytes \div 2
            /\ UNCHANGED spc
    /\ UNCHANGED <<longString, tried, inputs, divided, spawned, group, errMutex, errs,
                   pc, conn, idx, chunks, ci, pend, ret, tmp, conns, calls, failed,
                   pushLog, result, panicked>>

\* the loop condition fails: append longString[l:] and return splits
SplitEnd ==
    /\ spc = "loop" /\ splitR >= Len(longString)
    /\ splits' = Append(splits, lastChunk(longString, splitL))
    /\ spc' = "done"
    /\ UNCHANGED <<longString, splitL, splitR, tried, inputs, divided, spawned, group,
                   errMutex, errs, pc, conn, idx, chunks, ci, pend, ret, tmp, conns,
                   calls, failed, pushLog, result, panicked>>

\* a text of 2*L+5 bytes 'a' with chunk budget L
LongText(L) == [i \in 1 .. (2 * L + 5) |-> 97]

InitSplit ==
    /\ op = "Push"
    /\ parallelRoutines = 1
    /\ \/ /\ \E text \in Texts : records = <<[Object |-> 1, Text |-> text]>>
          /\ cmdMaxBytes \in CmdMaxBytesChoices
       \/ \E L \in 1 .. MaxBudget :
             /\ records = <<[Object |-> 1, Text |-> LongText(L)]>>
             /\ cmdMaxBytes = 2 * L
    /\ InitRest

NextSplit == SplitStart \/ SplitStep \/ SplitEnd

SpecSplit == InitSplit /\ [][NextSplit]_vars

\* ------------------------------------------------------------ properties
Returned == pc[0] = "returned"

\* the workers that were started
Started == {k \in Workers : pc[k] # "idle"}

\* number of entries of the error list for an object
NumEntries(o) == Cardinality({i \in DOMAIN errs : errs[i].Object = o})

\* number of occurrences of an entry in the error list
Count(e) == Cardinality({i \in DOMAIN errs : errs[i] = e})

RECURSIVE Flatten(_)
Flatten(ss) == IF ss = <<>> THEN <<>> ELSE Head(ss) \o Flatten(Tail(ss))

\* the range loop of the dispatcher is over: every partition has its worker
Dispatched == IsBulk /\ pc[0] # "call" /\ spawned = Len(divided)

\* C1: for a non-empty batch, parallelRoutines <= 0 starts exactly one
\* worker holding all the records, and parallelRoutines > len(records)
\* starts exactly len(records) workers holding one record each.
C1_ClampedWorkers ==
    (Dispatched /\ Len(records) > 0) =>
        /\ parallelRoutines <= 0 =>
              /\ Cardinality(Started) = 1
              /\ divided = <<records>>
        /\ parallelRoutines > Len(records) =>
              /\ Cardinality(Started) = Len(records)
              /\ Len(divided) = Len(records)
              /\ \A k \in 1 .. Len(records) : divided[k] = <<records[k]>>

C1_Witness ==
    /\ IsBulk /\ Returned /\ Len(records) = 2
    /\ parallelRoutines <= 0
    /\ Started = {1} /\ Len(divided[1]) = 2

\* C2: when every worker's newConnection gave nil, the list BulkPush
\* returns holds exactly one entry per input record, each carrying ErrClosed.
C2_OneErrClosedPerRecord ==
    (op = "BulkPush" /\ Returned /\ \A k \in 1 .. Len(divided) : conn[k] = NilConn) =>
        /\ Len(errs) = Len(records)
        /\ \A i \in 1 .. Len(records) : NumEntries(records[i].Object) = 1
        /\ \A i \in DOMAIN errs : errs[i].Error = ErrClosed

\* C3: every write and read of a worker goes to the connection that worker
\* opened; no connection, the driver's included, is used by another worker.
C3_OwnConnectionOnly ==
    \A c \in Threads : \A t \in conns[c].users : t \in Workers => t = c

\* C4: BulkPush and BulkPop return only after every started worker went
\* through its whole partition and closed its connection; after the return
\* no worker appends to the error list or touches a connection.
C4_ReturnAfterWorkers ==
    /\ [](IsBulk /\ Returned =>
            \A k \in 1 .. Len(divided) :
                /\ pc[k] = "done"
                /\ idx[k] = Len(divided[k]) + 1
                /\ conn[k] # NilConn => conns[k].state = "closed")
    /\ [][IsBulk /\ Returned => errs' = errs /\ conns' = conns]_vars

C4_Witness ==
    /\ IsBulk /\ Returned /\ Len(divided) = 2
    /\ conn[1] = 1 /\ conns[1].state = "closed"
    /\ conn[2] = NilConn
    /\ Len(errs) > 0

\* C5: appends to the shared error list exclude each other and none is
\* lost or duplicated: the returned list holds one entry per addBulkError
\* call made by the workers.
C5_NoLostAppend ==
    /\ Cardinality({k \in Workers : pc[k] = "abAppend"}) <= 1
    /\ \A k \in Workers : pc[k] = "abAppend" => errMutex = k
    /\ (IsBulk /\ Returned) =>
          /\ \A i \in DOMAIN errs : errs[i] \in Entries
          /\ \A e \in Entries : Count(e) = calls[e]

C5_Witness ==
    /\ IsBulk /\ Returned /\ Len(divided) = 2
    /\ NumEntries(1) >= 1 /\ NumEntries(2) >= 1
    /\ errs[1].Object = 2

\* C6: for every batch and parallelism the partitions are contiguous slices
\* whose concatenation, in order, is the input list, and none is empty.
C6_PartitionsCover ==
    (IsBulk /\ pc[0] = "dispatch") =>
        /\ Flatten(divided) = records
        /\ \A k \in 1 .. Len(divided) : divided[k] # <<>>

C6_Witness ==
    /\ IsBulk /\ pc[0] = "dispatch"
    /\ Len(records) = 5 /\ parallelRoutines = 3
    /\ Len(divided) = 3 /\ Len(divided[3]) = 1

\* C7: for 1 <= p <= len(records) the partitioner returns exactly p
\* partitions.
C7_ExactlyPPartitions ==
    (IsBulk /\ pc[0] = "dispatch"
        /\ 1 <= parallelRoutines /\ parallelRoutines <= Len(records)) =>
        Len(divided) = parallelRoutines

\* C8: with zero records, whatever parallelRoutines is, there is no
\* partition, no worker, no connection, the wait does not block and the
\* returned list is empty.
C8_EmptyBatch ==
    (IsBulk /\ Len(records) = 0) =>
        /\ ~panicked
        /\ divided = <<>>
        /\ Started = {}
        /\ \A c \in Workers : conns[c].state = "unopened"
        /\ errs = <<>>
        /\ pc[0] = "dispatch" => WaitReady

C8_Witness ==
    /\ IsBulk /\ Len(records) = 0 /\ parallelRoutines < 0
    /\ Returned /\ errs = <<>>

\* C9: for a worker whose connection opened, a record with a failed write
\* or read has exactly one entry in the list and a record without failure
\* has none, so no record has two entries.
C9_OneEntryPerFailedRecord ==
    IsBulk =>
        \A k \in 1 .. Len(divided) :
            (pc[k] # "idle" /\ pc[k] # "connect" /\ conn[k] # NilConn) =>
                /\ \A j \in 1 .. Len(divided[k]) :
                      NumEntries(divided[k][j].Object) <= 1
                /\ \A j \in 1 .. (idx[k] - 1) :
                      NumEntries(divided[k][j].Object) =
                          IF divided[k][j].Object \in failed THEN 1 ELSE 0

C9_Witness ==
    /\ IsBulk /\ Returned
    /\ conn[1] = 1 /\ Len(divided[1]) = 2
    /\ 1 \in failed /\ 2 \notin failed
    /\ NumEntries(1) = 1 /\ NumEntries(2) = 0

\* number of chunks of the Push thread t is executing
NumChunks(t) ==
    Len(splitText(escapeText(pushRec(t).Text), cmdMaxBytes \div 2).splits)

\* C10: Push writes the chunks in order, each once; at the first failed
\* write or read it returns that error and writes nothing more; it returns
\* nil only when every chunk was written and acknowledged.
C10_PushStopsAtFirstError ==
    \A t \in Threads :
        LET g == pushLog[t] IN
        /\ g.sent = [i \in 1 .. Len(g.sent) |-> i]
        /\ g.acked = [i \in 1 .. Len(g.acked) |-> i]
        /\ g.firstErr # Nil =>
              /\ g.done
              /\ g.res = g.firstErr
              /\ Len(g.acked) = Len(g.sent) - 1
        /\ (g.done /\ g.res = Nil) =>
              /\ g.firstErr = Nil
              /\ Len(g.sent) = NumChunks(t)
              /\ g.acked = g.sent

C10_Witness ==
    /\ op = "Push" /\ Returned /\ result = IOError
    /\ NumChunks(0) = 3
    /\ pushLog[0].sent = <<1, 2>> /\ pushLog[0].acked = <<1>>

\* ------------------------------------------- properties of the line codec
\* the text given to Push and the chunk budget i.cmdMaxBytes/2
TextIn == records[1].Text
Budget == cmdMaxBytes \div 2

\* the decoder of the escaping: backslash-backslash, backslash-n and
\* backslash-quote give back backslash, newline and quote
RECURSIVE unescape(_)
unescape(s) ==
    IF s = <<>> THEN <<>>
    ELSE IF Head(s) = 92 /\ Len(s) >= 2
    THEN <<(IF s[2] = 110 THEN 10 ELSE s[2])>> \o unescape(SubSeq(s, 3, Len(s)))
    ELSE <<Head(s)>> \o unescape(Tail(s))

\* the escape of one byte, and of a text byte by byte
EscapeByte(b) ==
    IF b = 92 THEN <<92, 92>>
    ELSE IF b = 10 THEN <<92, 110>>
    ELSE IF b = 34 THEN <<92, 34>>
    ELSE <<b>>

RECURSIVE EscapeByChar(_)
EscapeByChar(s) ==
    IF s = <<>> THEN <<>> ELSE EscapeByte(Head(s)) \o EscapeByChar(Tail(s))

Reserved(s) == {i \in DOMAIN s : s[i] \in {92, 10, 34}}

\* UTF-8 over one- and two-byte characters
IsCont(b) == b \in 128 .. 191
IsLead2(b) == b \in 192 .. 223
ValidUTF8(s) ==
    \A i \in DOMAIN s :
        /\ IsLead2(s[i]) => (i < Len(s) /\ IsCont(s[i + 1]))
        /\ IsCont(s[i]) => (i > 1 /\ IsLead2(s[i - 1]))

RECURSIVE Join(_)
Join(ss) == IF ss = <<>> THEN <<>> ELSE Head(ss) \o Join(Tail(ss))

\* C11: the chunks splitText returns, joined in order, are the escaped text
\* byte for byte, and decoding the join gives back the text given to Push.
C11_RoundTrip ==
    spc = "done" =>
        /\ Join(splits) = longString
        /\ unescape(Join(splits)) = TextIn

C11_Witness ==
    /\ spc = "done"
    /\ TextIn = <<34, 195, 169>> /\ Budget = 2
    /\ splits = << <<92, 34>>, <<195, 169>> >>

\* C12: for a valid UTF-8 text every chunk splitText emits has at most
\* Budget bytes, and no chunk begins with a continuation byte or ends with
\* a lead byte whose continuation is in the next chunk.
C12_ChunksBoundedOnRuneStarts ==
    ValidUTF8(TextIn) =>
        \A j \in DOMAIN splits :
            /\ Len(splits[j]) <= Budget
            /\ splits[j] # <<>> =>
                  /\ ~IsCont(splits[j][1])
                  /\ ~IsLead2(splits[j][Len(splits[j])])

C12_Witness ==
    /\ spc = "done"
    /\ TextIn = <<97, 195, 169>> /\ Budget = 2
    /\ splits = << <<97>>, <<195, 169>> >>

\* the lengths of the chunks
ChunkLens == [j \in DOMAIN splits |-> Len(splits[j])]

\* C13 as stated: for every chunk budget L >= 1 a text of 2*L+5 one-byte
\* characters is split into exactly 3 chunks of L, L and 5 bytes.
C13_ThreeChunks ==
    (spc = "done" /\ Budget >= 1 /\ TextIn = LongText(Budget)) =>
        ChunkLens = <<Budget, Budget, 5>>

\* C13 as amended: the same for every chunk budget L >= 5.
C13_ThreeChunksFromFive ==
    (Budget >= 5 /\ TextIn = LongText(Budget)) =>
        /\ spc # "panic"
        /\ spc = "done" => ChunkLens = <<Budget, Budget, 5>>

C13_Witness ==
    /\ spc = "done" /\ Budget = 6 /\ TextIn = LongText(6)
    /\ ChunkLens = <<6, 6, 5>>

\* C14: the escaping of Push replaces each backslash, newline and double
\* quote by its two-byte escape and changes nothing else: one byte added
\* per reserved byte, no escape escaped again, and decoding gives the text.
C14_EscapeExact ==
    spc # "start" =>
        /\ longString = EscapeByChar(TextIn)
        /\ Len(longString) = Len(TextIn) + Cardinality(Reserved(TextIn))
        /\ unescape(longString) = TextIn

C14_Witness ==
    /\ spc = "loop"
    /\ TextIn = <<92, 10, 34>>
    /\ longString = <<92, 92, 92, 110, 92, 34>>

\* C19: for a valid UTF-8 text and a budget >= 1 every iteration of the
\* outer loop of splitText strictly advances l, so the loop ends.
C19_SplitAdvances ==
    [][(ValidUTF8(TextIn) /\ Budget >= 1 /\ spc = "loop" /\ spc' = "loop")
           => splitL' > splitL]_vars

\* a chunk that ends with the backslash of an escape whose second byte is
\* not in it
RECURSIVE EndsUnpaired(_)
EndsUnpaired(c) ==
    IF c = <<>> THEN FALSE
    ELSE IF Head(c) = 92
    THEN IF Len(c) = 1 THEN TRUE ELSE EndsUnpaired(SubSeq(c, 3, Len(c)))
    ELSE EndsUnpaired(Tail(c))

\* C20: no chunk of Push ends between the backslash and the second byte of
\* an escape, so no chunk ends in an unpaired backslash.
C20_NoSplitEscape ==
    \A j \in DOMAIN splits : ~EndsUnpaired(splits[j])

\* ------------------------------------------- the bulk calls on a healthy service
\* every connection opens, every write succeeds, and the service answers
\* each command line with one response line and sends nothing else, so a
\* read returns only by taking a response line that is there
Opened(k) == conn'[k] # NilConn
Wrote == \E c \in Threads : conns'[c].written = conns[c].written + 1
Answered == \E c \in Threads : conns'[c].pending = conns[c].pending - 1

CallerLive == BulkStart \/ Spawn \/ GroupWait

WorkerLive(k) ==
    \/ Connect(k) /\ Opened(k)
    \/ LoopHead(k)
    \/ PushStart(k)
    \/ PushWrite(k) /\ Wrote
    \/ PushRead(k) /\ Answered
    \/ PopWrite(k) /\ Wrote
    \/ BulkRead(k) /\ Answered
    \/ Close(k)
    \/ GroupDone(k)

NextLive == CallerLive \/ \E k \in Workers : WorkerLive(k)

\* the Go scheduler lets every goroutine that can take a step take one
InitLive == InitBulk /\ InitRest

SpecLive ==
    /\ InitLive
    /\ [][NextLive]_vars
    /\ WF_vars(CallerLive)
    /\ \A k \in Workers : WF_vars(WorkerLive(k))

\* ------------------------------------------ properties of the bulk workers
\* C15: during BulkPush and BulkPop the number of reads issued on a
\* connection never exceeds the number of command lines written to it.
C15_ReadsFollowWrites ==
    IsBulk => \A c \in Threads : conns[c].reads <= conns[c].written

\* C16: on a healthy service and under fair scheduling BulkPush and BulkPop
\* eventually return, and the error list they return is empty.
C16_EventuallyReturnsEmpty == <>(Returned /\ errs = <<>>)

\* the workers past their loop
\* the records worker k has attempted are the first ones of its partition,
\* in record order
TriedInOrder(k) ==
    /\ Len(tried[k]) <= Len(divided[k])
    /\ \A m \in DOMAIN tried[k] : tried[k][m] = divided[k][m].Object
LoopOver == {k \in Workers : pc[k] \in {"close", "groupDone", "done"}}

\* C17: a failure on one record never ends a worker's loop: a worker attempts
\* the records of its partition in record order, on the one connection it
\* opened, and leaves its loop only when it has attempted every one of them.
C17_LoopSurvivesFailure ==
    IsBulk =>
        \A k \in Started :
            /\ TriedInOrder(k)
            /\ k \in LoopOver => Len(tried[k]) = Len(divided[k])
            /\ conn[k] \in {NilConn, k}

C17_Witness ==
    /\ op = "BulkPop" /\ Len(divided) = 1
    /\ pc[1] = "done" /\ 1 \in failed
    /\ Count([Object |-> 1, Error |-> IOError]) = 1
    /\ tried[1] = <<1, 2>>

\* the partition a record belongs to
PartOf(o) == CHOOSE k \in DOMAIN divided : \E m \in DOMAIN divided[k] :
                                               divided[k][m].Object = o

====
